---- MODULE Spec2Model ----
(***************************************************************************)
(* Wordpiece alignment (babybertsrl/word_pieces.py) and the CoNLL span     *)
(* scorer (bert_recipes/eval.py) of BabyBertSRL.                           *)
(*                                                                         *)
(* Python strings are sequences of one-character strings, so that slicing, *)
(* startswith, concatenation and justification are computed, not assumed.  *)
(* Python indices are kept 0-based as values; a TLA+ sequence holding a    *)
(* Python list is read at index k + 1.                                     *)
(*                                                                         *)
(* The module holds one specification per component:                       *)
(*   SpecConll   convert_bio_tags_to_conll_format                          *)
(*   SpecProject convert_bio_tags_to_wordpieces                            *)
(*   SpecSegment convert_words_to_wordpieces, convert_wordpieces_to_words  *)
(*   SpecWrite   write_conll_formatted_tags_to_file                        *)
(*   Spec        SrlEvalScorer (__call__, get_tag2metrics, reset)          *)
(* Each specification leaves the other components' variables at their idle *)
(* values.                                                                 *)
(***************************************************************************)
EXTENDS Integers, Sequences, FiniteSets, Bags, TLC

VARIABLES
    pc,                 \* position of the running component
    labels,             \* SpecConll: the BIO tags given
    conll_labels,       \* SpecConll: the list returned
    tags,               \* SpecProject: word-level BIO tags
    offsets,            \* SpecProject: end offsets, one per word
    new_tags,           \* SpecProject: the list returned
    tokens,             \* SpecSegment: the words of the sentence
    tokenize,           \* SpecSegment: the tokenizer's answer for each word
    wordpieces,         \* SpecSegment: [CLS] + pieces + [SEP]
    end_offsets,        \* SpecSegment: index of each word's last piece
    start_offsets,      \* SpecSegment: index of each word's first piece
    words,              \* SpecSegment: the words rebuilt from the pieces
    verb_index,         \* SpecWrite: <<>> for None, <<v>> for the index v
    sentence,           \* SpecWrite: the word tokens
    predictions,        \* SpecWrite: CoNLL-formatted predicted labels
    gold_labels,        \* SpecWrite: CoNLL-formatted gold labels
    prediction_file,    \* SpecWrite: the lines written to the prediction file
    gold_file,          \* SpecWrite: the lines written to the gold file
    script_exists,      \* Spec: whether srl-eval.pl is at _srl_eval_path
    true_positives,     \* Spec: SrlEvalScorer._true_positives
    false_positives,    \* Spec: SrlEvalScorer._false_positives
    false_negatives,    \* Spec: SrlEvalScorer._false_negatives
    tempdirs,           \* Spec: the temporary directories on disk, with their files
    seen,               \* Spec: the bag of the lines the external scorer has
                        \*       printed since the counts were last empty
    res,                \* Spec: what get_tag2metrics last returned
    op,                 \* Spec: the last call made on the scorer and how it ended
    ncalls,             \* Spec: the number of __call__ invocations so far
    predicate,          \* SpecVerb, SpecSrl: the predicate index of the proposition
    verb_indices,       \* SpecVerb, SpecSrl: the word-level verb indicator
    new_verb_indices,   \* SpecVerb, SpecSrl: the piece-level verb indicator
    metadata,           \* SpecSrl: the metadata of the instance built
    utterances,         \* SpecMlm: the utterances given to make_instances
    num_masked,         \* SpecMlm: ConverterMLM.num_masked
    instances           \* SpecMlm: the instances make_instances returns

conllVars == <<labels, conll_labels>>
projectVars == <<tags, offsets, new_tags>>
segmentVars == <<tokens, tokenize, wordpieces, end_offsets, start_offsets, words>>
writeVars == <<verb_index, sentence, predictions, gold_labels, prediction_file, gold_file>>

countVars == <<true_positives, false_positives, false_negatives>>
scorerVars == <<script_exists, countVars, tempdirs, seen, res, op, ncalls>>

converterVars == <<predicate, verb_indices, new_verb_indices, metadata,
                  utterances, num_masked, instances>>

vars == <<pc, conllVars, projectVars, segmentVars, writeVars, scorerVars, converterVars>>

IdleConll == labels = <<>> /\ conll_labels = <<>>
IdleProject == tags = <<>> /\ offsets = <<>> /\ new_tags = <<>>
IdleSegment ==
    /\ tokens = <<>>
    /\ tokenize = <<>>
    /\ wordpieces = <<>>
    /\ end_offsets = <<>>
    /\ start_offsets = <<>>
    /\ words = <<>>

IdleWrite ==
    /\ verb_index = <<>>
    /\ sentence = <<>>
    /\ predictions = <<>>
    /\ gold_labels = <<>>
    /\ prediction_file = <<>>
    /\ gold_file = <<>>

NoOp == [name |-> "none", reset |-> FALSE, raised |-> "", tempdir |-> <<>>,
         batch_size |-> <<>>, invoked |-> FALSE]

IdleScorer ==
    /\ script_exists = FALSE
    /\ true_positives = <<>>
    /\ false_positives = <<>>
    /\ false_negatives = <<>>
    /\ tempdirs = <<>>
    /\ seen = <<>>
    /\ res = <<>>
    /\ op = NoOp
    /\ ncalls = 0

IdleConverter ==
    /\ predicate = 0
    /\ verb_indices = <<>>
    /\ new_verb_indices = <<>>
    /\ metadata = <<>>
    /\ utterances = <<>>
    /\ num_masked = 0
    /\ instances = <<>>

----------------------------------------------------------------------------
(* Bounds *)

MaxTags == 4
MaxWords == 3
MaxPieces == 2
MaxTokens == 2
MaxWordLen == 2
MaxSentence == 2
MaxCalls == 3
MaxPieceSeq == 4
MaxMasked == 2

(* Python string and list helpers *)

\* s[k:] of Python, for k >= 0: empty when k >= len(s)
SliceFrom(s, k) == SubSeq(s, k + 1, Len(s))

\* s.startswith(p)
StartsWith(s, p) == Len(s) >= Len(p) /\ SubSeq(s, 1, Len(p)) = p

\* all sequences over S of length 0..n
SeqsUpTo(S, n) == UNION {[1..k -> S] : k \in 0..n}

Str_O == <<"O">>
Str_B == <<"B">>
Str_I == <<"I">>
Star == <<"*">>

\* the role labels used in tags; every label is non-empty
Labels == {<<"A">>, <<"V">>}

BTag(l) == <<"B", "-">> \o l
ITag(l) == <<"I", "-">> \o l

TagSet == {Str_O} \cup {BTag(l) : l \in Labels} \cup {ITag(l) : l \in Labels}

----------------------------------------------------------------------------
(* bert_recipes/eval.py: convert_bio_tags_to_conll_format *)

\* the start-of-span test of line 276, with the first operand dropped
is_new_span_without_prev(lbls, i) ==
    LET label == lbls[i + 1] IN
    label[1] = "B" \/ i = 0

\* line 276: label[0] == "B" or i == 0 or label[1:] != labels[i - 1][1:]
is_new_span(lbls, i) ==
    LET label == lbls[i + 1] IN
    label[1] = "B" \/ i = 0 \/ SliceFrom(label, 1) /= SliceFrom(lbls[i], 1)

\* the end-of-span test of line 280, with the last operand dropped
is_span_end_without_next_label(lbls, i) ==
    LET sentence_length == Len(lbls) IN
    i = sentence_length - 1 \/ lbls[i + 2][1] = "B"

\* line 280: i == sentence_length - 1 or labels[i + 1][0] == "B"
\*           or label[1:] != labels[i + 1][1:]
is_span_end(lbls, i) ==
    LET label == lbls[i + 1]
        sentence_length == Len(lbls) IN
    i = sentence_length - 1 \/ lbls[i + 2][1] = "B"
        \/ SliceFrom(label, 1) /= SliceFrom(lbls[i + 2], 1)

\* one iteration of the loop of lines 269-282: the element appended for index i
conll_label_at(lbls, i) ==
    LET label == lbls[i + 1] IN
    IF label = Str_O THEN Star
    ELSE LET opened == IF is_new_span(lbls, i)
                       THEN <<"(">> \o SliceFrom(label, 2) \o Star
                       ELSE Star
         IN IF is_span_end(lbls, i) THEN opened \o <<")">> ELSE opened

\* lines 267-283: the iterations are independent, each appends one element
convert_bio_tags_to_conll_format(lbls) ==
    [k \in 1..Len(lbls) |-> conll_label_at(lbls, k - 1)]

----------------------------------------------------------------------------
(* SpecConll *)

InitConll ==
    /\ pc = "conll_input"
    /\ labels \in SeqsUpTo(TagSet, MaxTags)
    /\ conll_labels = <<>>
    /\ IdleProject
    /\ IdleSegment
    /\ IdleWrite
    /\ IdleScorer
    /\ IdleConverter

ConvertToConll ==
    /\ pc = "conll_input"
    /\ conll_labels' = convert_bio_tags_to_conll_format(labels)
    /\ pc' = "conll_done"
    /\ UNCHANGED <<labels, projectVars, segmentVars, writeVars, scorerVars, converterVars>>

NextConll == ConvertToConll

SpecConll == InitConll /\ [][NextConll]_vars

----------------------------------------------------------------------------
(* C1 *)

\* the label portion of a tag: the substring after the 2-character prefix
LabelOf(tag) == SliceFrom(tag, 2)

C1_Opens(i) ==
    \/ labels[i + 1][1] = "B"
    \/ i = 0
    \/ LabelOf(labels[i + 1]) /= LabelOf(labels[i])

C1_Closes(i) ==
    \/ i = Len(labels) - 1
    \/ labels[i + 2][1] = "B"
    \/ LabelOf(labels[i + 2]) /= LabelOf(labels[i + 1])

\* C1: the returned list has the length of the tag list; an O tag maps to
\* "*"; a non-O tag at i maps to "*" prefixed with "(" + tags[i][2:] exactly
\* when it starts with B, or i = 0, or its label differs from the label of
\* tags[i-1], and suffixed with ")" exactly when i = L-1, or tags[i+1] starts
\* with B, or its label differs from the label of tags[i+1].
C1_ConllShape ==
    pc = "conll_done" =>
        /\ Len(conll_labels) = Len(labels)
        /\ \A i \in 0..(Len(labels) - 1) :
              conll_labels[i + 1] =
                  IF labels[i + 1] = Str_O THEN Star
                  ELSE (IF C1_Opens(i) THEN <<"(">> \o LabelOf(labels[i + 1]) ELSE <<>>)
                       \o Star
                       \o (IF C1_Closes(i) THEN <<")">> ELSE <<>>)

\* an I- tag after an O opens (and here also closes) a span
C1_Witness ==
    /\ pc = "conll_done"
    /\ labels = <<Str_O, ITag(<<"A">>), Str_O>>
    /\ conll_labels = <<Star, <<"(", "A", "*", ")">>, Star>>

----------------------------------------------------------------------------
(* C18 *)

\* the element at Python index i opens, closes a span
OpensAt(i) == \E k \in 1..Len(conll_labels[i + 1]) : conll_labels[i + 1][k] = "("
ClosesAt(i) == \E k \in 1..Len(conll_labels[i + 1]) : conll_labels[i + 1][k] = ")"

\* scanning from the left, a span is open when index i is met
RECURSIVE SpanOpenBefore(_)
SpanOpenBefore(i) ==
    IF i = 0 THEN FALSE
    ELSE (SpanOpenBefore(i - 1) \/ OpensAt(i - 1)) /\ ~ClosesAt(i - 1)

\* C18: for every tag sequence over O, B-<label>, I-<label>, well-formed or
\* not, the brackets of the returned list are balanced and not nested: a "("
\* occurs only when no span is open, a ")" only when a span is open, no span is
\* left open after the last position, and an O position carries no bracket.
C18_BalancedBrackets ==
    pc = "conll_done" =>
        /\ \A i \in 0..(Len(conll_labels) - 1) :
              /\ OpensAt(i) => ~SpanOpenBefore(i)
              /\ ClosesAt(i) => (SpanOpenBefore(i) \/ OpensAt(i))
              /\ labels[i + 1] = Str_O => (~OpensAt(i) /\ ~ClosesAt(i))
              /\ Len(SelectSeq(conll_labels[i + 1], LAMBDA c : c = "(")) <= 1
              /\ Len(SelectSeq(conll_labels[i + 1], LAMBDA c : c = ")")) <= 1
        /\ ~SpanOpenBefore(Len(conll_labels))

\* an I- tag of another label ends the span before it and opens its own
C18_Witness ==
    /\ pc = "conll_done"
    /\ labels = <<BTag(<<"A">>), ITag(<<"A">>), ITag(<<"V">>)>>
    /\ conll_labels = <<<<"(", "A", "*">>, <<"*", ")">>, <<"(", "V", "*", ")">>>>

----------------------------------------------------------------------------
(* babybertsrl/word_pieces.py: convert_bio_tags_to_wordpieces *)

\* tag.split("-", 1)[1]: what follows the first "-"
RECURSIVE AfterFirstDash(_)
AfterFirstDash(s) ==
    IF s = <<>> THEN <<>>
    ELSE IF Head(s) = "-" THEN Tail(s)
    ELSE AfterFirstDash(Tail(s))

\* is_start at the top of a word's iteration, were line 163 hoisted out of the loop
is_start_for_word_kept(previous) == previous

\* line 163: is_start = True, at the top of every word's iteration
is_start_for_word(previous) == TRUE

\* lines 165-177: what one pass of the while loop appends to new_tags
appended_for_piece(tag, is_o, is_start) ==
    IF is_o THEN <<Str_O>>
    ELSE IF StartsWith(tag, Str_I) THEN <<tag>>
    ELSE IF is_start /\ StartsWith(tag, Str_B) THEN <<tag>>
    ELSE IF StartsWith(tag, Str_B) THEN <<<<"I", "-">> \o AfterFirstDash(tag)>>
    ELSE <<>>

\* is_start after one pass, were line 173 missing
is_start_after_piece_stuck(tag, is_o, is_start) == is_start

\* line 173: is_start = False, in the third branch only
is_start_after_piece(tag, is_o, is_start) ==
    IF ~is_o /\ ~StartsWith(tag, Str_I) /\ is_start /\ StartsWith(tag, Str_B)
    THEN FALSE
    ELSE is_start

\* lines 164-178: while j < offset
RECURSIVE bio_while(_, _, _, _, _, _)
bio_while(tag, is_o, offset, j, is_start, out) ==
    IF ~(j < offset) THEN [j |-> j, is_start |-> is_start, new_tags |-> out]
    ELSE bio_while(tag, is_o, offset, j + 1,
                   is_start_after_piece(tag, is_o, is_start),
                   out \o appended_for_piece(tag, is_o, is_start))

\* lines 160-178: for i, offset in enumerate(offsets)
RECURSIVE bio_for(_, _, _, _, _, _)
bio_for(tgs, offs, i, j, is_start, out) ==
    IF i >= Len(offs) THEN out
    ELSE LET tag == tgs[i + 1]
             is_o == (tag = Str_O)
             w == bio_while(tag, is_o, offs[i + 1], j, is_start_for_word(is_start), out)
         IN bio_for(tgs, offs, i + 1, w.j, w.is_start, w.new_tags)

\* lines 158-181
convert_bio_tags_to_wordpieces(tgs, offs) ==
    <<Str_O>> \o bio_for(tgs, offs, 0, 0, TRUE, <<>>) \o <<Str_O>>

----------------------------------------------------------------------------
(* SpecProject *)

\* the end offsets of words with the given numbers of pieces
RECURSIVE EndOffsetsOf(_)
EndOffsetsOf(counts) ==
    IF counts = <<>> THEN <<>>
    ELSE LET front == EndOffsetsOf(SubSeq(counts, 1, Len(counts) - 1))
             before == IF front = <<>> THEN 0 ELSE front[Len(front)]
         IN Append(front, before + counts[Len(counts)])

InitProject ==
    /\ pc = "project_input"
    /\ tags \in SeqsUpTo(TagSet, MaxWords)
    /\ offsets \in {EndOffsetsOf(c) : c \in [1..Len(tags) -> 0..MaxPieces]}
    /\ new_tags = <<>>
    /\ IdleConll
    /\ IdleSegment
    /\ IdleWrite
    /\ IdleScorer
    /\ IdleConverter

ProjectTags ==
    /\ pc = "project_input"
    /\ new_tags' = convert_bio_tags_to_wordpieces(tags, offsets)
    /\ pc' = "project_done"
    /\ UNCHANGED <<tags, offsets, conllVars, segmentVars, writeVars, scorerVars, converterVars>>

NextProject == ProjectTags

SpecProject == InitProject /\ [][NextProject]_vars

----------------------------------------------------------------------------
(* C2, C3 *)

\* every word has at least one piece: the end offsets increase strictly from >= 1
EveryWordHasAPiece(offs) ==
    \A i \in 1..Len(offs) : offs[i] > (IF i = 1 THEN 0 ELSE offs[i - 1])

\* Python index, into the returned list, of the first piece of word i (0-based)
FirstPieceOf(offs, i) == IF i = 0 THEN 1 ELSE offs[i] + 1

\* C2: with every word holding at least one piece, the returned list has
\* end_offsets[-1] + 2 tags, its first and last are O, the pieces of an O word
\* are O, the pieces of an I-<label> word are I-<label>, and the pieces of a
\* B-<label> word are B-<label> for the first piece and I-<label> afterwards.
C2_ProjectedTags ==
    (pc = "project_done" /\ Len(tags) >= 1 /\ EveryWordHasAPiece(offsets)) =>
        /\ Len(new_tags) = offsets[Len(offsets)] + 2
        /\ new_tags[1] = Str_O
        /\ new_tags[Len(new_tags)] = Str_O
        /\ \A i \in 0..(Len(tags) - 1) :
              \A p \in FirstPieceOf(offsets, i)..offsets[i + 1] :
                 new_tags[p + 1] =
                     IF tags[i + 1][1] = "B" /\ p > FirstPieceOf(offsets, i)
                     THEN ITag(LabelOf(tags[i + 1]))
                     ELSE tags[i + 1]

\* a B- word of two pieces, followed by an I- word of two pieces
C2_Witness ==
    /\ pc = "project_done"
    /\ tags = <<BTag(<<"A">>), ITag(<<"A">>)>>
    /\ offsets = <<2, 4>>
    /\ new_tags = <<Str_O, BTag(<<"A">>), ITag(<<"A">>), ITag(<<"A">>), ITag(<<"A">>), Str_O>>

\* every I-<label> is immediately preceded by a B-<label> or I-<label>
WellFormedBIO(s) ==
    \A k \in 1..Len(s) :
        s[k][1] = "I" =>
            /\ k > 1
            /\ s[k - 1] \in {BTag(LabelOf(s[k])), ITag(LabelOf(s[k]))}

\* C3: a well-formed word-level sequence whose words all have a piece is
\* projected to a well-formed piece-level sequence.
C3_ProjectionWellFormed ==
    (pc = "project_done" /\ WellFormedBIO(tags) /\ EveryWordHasAPiece(offsets))
        => WellFormedBIO(new_tags)

\* two adjacent spans, each opened by a B- word split into two pieces
C3_Witness ==
    /\ pc = "project_done"
    /\ tags = <<BTag(<<"A">>), BTag(<<"V">>), ITag(<<"V">>)>>
    /\ offsets = <<2, 4, 5>>
    /\ WellFormedBIO(tags)
    /\ new_tags = <<Str_O, BTag(<<"A">>), ITag(<<"A">>), BTag(<<"V">>), ITag(<<"V">>),
                    ITag(<<"V">>), Str_O>>

----------------------------------------------------------------------------
(* The wordpiece tokenizer consumed by convert_words_to_wordpieces *)

CLS == <<"[", "C", "L", "S", "]">>
SEP == <<"[", "S", "E", "P", "]">>
UNK == <<"[", "U", "N", "K", "]">>
Continuation == <<"#", "#">>

Chars == {"a", "b"}

\* the words a sentence is made of
WordSet == UNION {[1..k -> Chars] : k \in 1..MaxWordLen}

\* the word cut after the positions in cuts, first piece first
RECURSIVE CutAt(_, _)
CutAt(w, cuts) ==
    IF cuts = {} THEN <<w>>
    ELSE LET c == CHOOSE x \in cuts : \A y \in cuts : x <= y
         IN <<SubSeq(w, 1, c)>>
            \o CutAt(SubSeq(w, c + 1, Len(w)), {x - c : x \in cuts \ {c}})

\* wordpiece marking: every piece but the first carries the ## prefix
MarkPieces(ps) == [k \in 1..Len(ps) |-> IF k = 1 THEN ps[k] ELSE Continuation \o ps[k]]

\* what wordpiece_tokenizer.tokenize(token) may return: the word cut into
\* pieces found in the vocabulary, [UNK] when it cannot be cut, nothing at all
\* for a token that holds no text
Tokenizations(w) ==
    {MarkPieces(CutAt(w, cuts)) : cuts \in SUBSET (1..(Len(w) - 1))}
        \cup {<<UNK>>, <<>>}

----------------------------------------------------------------------------
(* babybertsrl/word_pieces.py: convert_words_to_wordpieces *)

\* line 98 with the + 1 for [CLS] forgotten
start_offset_without_cls(cumulative) == cumulative

\* line 98: start_offsets.append(cumulative + 1)
start_offset(cumulative) == cumulative + 1

\* lines 96-101: for token in tokens
RECURSIVE segment_for(_, _, _, _)
segment_for(toks, tok, k, acc) ==
    IF k > Len(toks) THEN acc
    ELSE LET word_pieces == tok[toks[k]]
             cumulative == acc.cumulative + Len(word_pieces)
         IN segment_for(toks, tok, k + 1,
                [word_piece_tokens |-> acc.word_piece_tokens \o word_pieces,
                 start_offsets |-> Append(acc.start_offsets, start_offset(acc.cumulative)),
                 cumulative |-> cumulative,
                 end_offsets |-> Append(acc.end_offsets, cumulative)])

\* lines 92-105
convert_words_to_wordpieces(toks, tok) ==
    LET r == segment_for(toks, tok, 1,
                 [word_piece_tokens |-> <<>>, end_offsets |-> <<>>,
                  start_offsets |-> <<>>, cumulative |-> 0])
    IN [wordpieces |-> <<CLS>> \o r.word_piece_tokens \o <<SEP>>,
        end_offsets |-> r.end_offsets,
        start_offsets |-> r.start_offsets]

----------------------------------------------------------------------------
(* babybertsrl/word_pieces.py: convert_wordpieces_to_words *)

\* p.lstrip('##'): every leading '#' is removed
RECURSIVE LStripHash(_)
LStripHash(p) ==
    IF p /= <<>> /\ Head(p) = "#" THEN LStripHash(Tail(p)) ELSE p

\* ''.join(pieces)
RECURSIVE Join(_)
Join(pieces) ==
    IF pieces = <<>> THEN <<>> ELSE Head(pieces) \o Join(Tail(pieces))

\* lines 21-27
convert_sub_text_to_word(pieces, remove_garbage) ==
    IF remove_garbage
    THEN Join([k \in 1..Len(pieces) |-> LStripHash(pieces[k])])
    ELSE Join(pieces)

\* lines 40-44: the continuation pieces that directly follow
RECURSIVE following_continuations(_)
following_continuations(rest) ==
    IF rest /= <<>> /\ StartsWith(Head(rest), Continuation)
    THEN <<Head(rest)>> \o following_continuations(Tail(rest))
    ELSE <<>>

\* lines 30-45: for n, wp in enumerate(wordpieces)
RECURSIVE words_for(_, _, _)
words_for(wps, n, acc) ==
    IF n >= Len(wps) THEN acc
    ELSE LET wp == wps[n + 1] IN
         IF wp = CLS /\ n = 0 THEN words_for(wps, n + 1, acc)
         ELSE IF wp = SEP /\ n = Len(wps) - 1 THEN words_for(wps, n + 1, acc)
         ELSE IF StartsWith(wp, Continuation) THEN words_for(wps, n + 1, acc)
         ELSE LET chunk == <<wp>> \o following_continuations(SliceFrom(wps, n + 1))
              IN words_for(wps, n + 1, Append(acc, convert_sub_text_to_word(chunk, FALSE)))

\* lines 29-53, were every [CLS] and [SEP] dropped wherever it stands
convert_wordpieces_to_words_without_sentinels(wps) ==
    LET NotSentinel(wp) == wp \notin {CLS, SEP}
    IN words_for(SelectSeq(wps, NotSentinel), 0, <<>>)

\* lines 29-53
convert_wordpieces_to_words(wps) == words_for(wps, 0, <<>>)

----------------------------------------------------------------------------
(* SpecSegment *)

Range(f) == {f[x] : x \in DOMAIN f}

\* the tokenizers over the words of D: one of its possible answers for each word
RECURSIVE Tokenizers(_)
Tokenizers(D) ==
    IF D = {} THEN {<<>>}
    ELSE LET w == CHOOSE x \in D : TRUE
         IN {(w :> t) @@ f : t \in Tokenizations(w), f \in Tokenizers(D \ {w})}

InitSegment ==
    /\ pc = "segment_input"
    /\ tokens \in SeqsUpTo(WordSet, MaxTokens)
    /\ tokenize \in Tokenizers(Range(tokens))
    /\ wordpieces = <<>>
    /\ end_offsets = <<>>
    /\ start_offsets = <<>>
    /\ words = <<>>
    /\ IdleConll
    /\ IdleProject
    /\ IdleWrite
    /\ IdleScorer
    /\ IdleConverter

WordsToWordpieces ==
    /\ pc = "segment_input"
    /\ LET r == convert_words_to_wordpieces(tokens, tokenize) IN
          /\ wordpieces' = r.wordpieces
          /\ end_offsets' = r.end_offsets
          /\ start_offsets' = r.start_offsets
    /\ pc' = "segment_pieces"
    /\ UNCHANGED <<tokens, tokenize, words, conllVars, projectVars, writeVars, scorerVars, converterVars>>

WordpiecesToWords ==
    /\ pc = "segment_pieces"
    /\ words' = convert_wordpieces_to_words(wordpieces)
    /\ pc' = "segment_words"
    /\ UNCHANGED <<tokens, tokenize, wordpieces, end_offsets, start_offsets,
                   conllVars, projectVars, writeVars, scorerVars, converterVars>>

NextSegment == WordsToWordpieces \/ WordpiecesToWords

SpecSegment == InitSegment /\ [][NextSegment]_vars

----------------------------------------------------------------------------
(* C4, C5 *)

\* the piece lookup gives every word of the sentence a non-empty piece sequence
NoWordWithoutPieces == \A w \in Range(tokens) : tokenize[w] /= <<>>

\* C4: with every word holding at least one piece, both offset lists have one
\* entry per word, start_offsets[0] = 1, start_offsets[i] <= end_offsets[i]
\* < start_offsets[i+1], end_offsets[N-1] is the number of pieces between
\* [CLS] and [SEP], and so every offset lies strictly between the positions of
\* [CLS] (0) and [SEP] (the last one).
C4_OffsetsOrdered ==
    (pc \in {"segment_pieces", "segment_words"} /\ NoWordWithoutPieces) =>
        LET N == Len(tokens) IN
        /\ Len(start_offsets) = N
        /\ Len(end_offsets) = N
        /\ N >= 1 => start_offsets[1] = 1
        /\ \A i \in 1..N : start_offsets[i] <= end_offsets[i]
        /\ \A i \in 1..(N - 1) : end_offsets[i] < start_offsets[i + 1]
        /\ N >= 1 => end_offsets[N] = Len(wordpieces) - 2
        /\ \A i \in 1..N :
              /\ 0 < start_offsets[i] /\ start_offsets[i] < Len(wordpieces) - 1
              /\ 0 < end_offsets[i] /\ end_offsets[i] < Len(wordpieces) - 1

\* a two-piece word followed by a one-piece word
C4_Witness ==
    /\ pc = "segment_pieces"
    /\ tokens = <<<<"a", "b">>, <<"b">>>>
    /\ wordpieces = <<CLS, <<"a">>, <<"#", "#", "b">>, <<"b">>, SEP>>
    /\ start_offsets = <<1, 3>>
    /\ end_offsets = <<2, 3>>

\* the pieces of w are the word cut up: first piece unmarked, later pieces
\* marked with ##, and the pieces spell w once the markers are taken off
SpellsWord(ps, w) ==
    /\ ps /= <<>>
    /\ ~StartsWith(ps[1], Continuation)
    /\ \A k \in 2..Len(ps) : StartsWith(ps[k], Continuation)
    /\ Join([k \in 1..Len(ps) |-> IF k = 1 THEN ps[k] ELSE SliceFrom(ps[k], 2)]) = w

RoundTripInputs ==
    \A w \in Range(tokens) :
        /\ \A k \in 1..Len(tokenize[w]) : tokenize[w][k] \notin {CLS, SEP}
        /\ SpellsWord(tokenize[w], w)

\* C5: when no piece is the [CLS]/[SEP] literal, no word lacks pieces and each
\* word's pieces spell it, convert_wordpieces_to_words applied to the pieces
\* returned by convert_words_to_wordpieces gives back the word list.
C5_RoundTrip ==
    (pc = "segment_words" /\ RoundTripInputs) => words = tokens

----------------------------------------------------------------------------
(* bert_recipes/eval.py: write_conll_formatted_tags_to_file *)

\* the width of both columns
FieldWidth == 15

Spaces(n) == [k \in 1..n |-> " "]

\* s.ljust(n), s.rjust(n): s is returned as it is when it is n or longer
LJust(s, n) == IF Len(s) >= n THEN s ELSE s \o Spaces(n - Len(s))
RJust(s, n) == IF Len(s) >= n THEN s ELSE Spaces(n - Len(s)) \o s

Min(a, b) == IF a <= b THEN a ELSE b

Dash == <<"-">>

\* line 318: `if verb_index:` -- neither None nor 0
verb_index_is_truthy(vi) == vi /= <<>> /\ vi[1] /= 0

\* lines 317-319
verb_only_sentence(vi, sent) ==
    IF verb_index_is_truthy(vi)
    THEN [k \in 1..Len(sent) |-> IF k = vi[1] + 1 THEN sent[k] ELSE Dash]
    ELSE [k \in 1..Len(sent) |-> Dash]

\* lines 321-329: a file is the list of its lines; each row is written as two
\* fields and a newline, and a last newline leaves an empty line
write_conll_formatted_tags_to_file(pfile, gfile, vi, sent, preds, golds) ==
    LET vos == verb_only_sentence(vi, sent)
        rows == Min(Len(vos), Min(Len(preds), Len(golds)))
    IN [prediction_file |->
            pfile \o [k \in 1..rows |-> LJust(vos[k], FieldWidth) \o RJust(preds[k], FieldWidth)]
                  \o <<<<>>>>,
        gold_file |->
            gfile \o [k \in 1..rows |-> LJust(vos[k], FieldWidth) \o RJust(golds[k], FieldWidth)]
                  \o <<<<>>>>]

----------------------------------------------------------------------------
(* SpecWrite *)

SentenceWords == {<<"g", "o">>, <<"i", "t">>}

\* the CoNLL-formatted label lists of a given length
ConllLists(n) ==
    {convert_bio_tags_to_conll_format(t) :
        t \in [1..n -> {Str_O, BTag(<<"A">>), ITag(<<"A">>)}]}

InitWrite ==
    /\ pc = "write_input"
    /\ sentence \in SeqsUpTo(SentenceWords, MaxSentence)
    /\ verb_index \in {<<>>} \cup {<<v>> : v \in 0..(Len(sentence) - 1)}
    /\ predictions \in ConllLists(Len(sentence))
    /\ gold_labels \in ConllLists(Len(sentence))
    /\ prediction_file = <<>>
    /\ gold_file = <<>>
    /\ IdleConll
    /\ IdleProject
    /\ IdleSegment
    /\ IdleScorer
    /\ IdleConverter

WriteTags ==
    /\ pc = "write_input"
    /\ LET r == write_conll_formatted_tags_to_file(prediction_file, gold_file, verb_index,
                                                   sentence, predictions, gold_labels) IN
          /\ prediction_file' = r.prediction_file
          /\ gold_file' = r.gold_file
    /\ pc' = "write_done"
    /\ UNCHANGED <<verb_index, sentence, predictions, gold_labels,
                   conllVars, projectVars, segmentVars, scorerVars, converterVars>>

NextWrite == WriteTags

SpecWrite == InitWrite /\ [][NextWrite]_vars

----------------------------------------------------------------------------
(* C10 *)

\* s without its trailing spaces
RECURSIVE RStrip(_)
RStrip(s) ==
    IF s /= <<>> /\ s[Len(s)] = " " THEN RStrip(SubSeq(s, 1, Len(s) - 1)) ELSE s

\* the word column of a written row
WordColumn(line) == RStrip(SubSeq(line, 1, FieldWidth))

\* C10: for every verb index v with 0 <= v < len(sentence), v = 0 included,
\* both files hold sentence[v] in the word column of row v and "-" in the
\* word column of every other row.
C10_VerbWordWritten ==
    (pc = "write_done" /\ verb_index /= <<>>) =>
        \A r \in 0..(Len(sentence) - 1) :
            LET expected == IF r = verb_index[1] THEN sentence[r + 1] ELSE Dash IN
            /\ WordColumn(prediction_file[r + 1]) = expected
            /\ WordColumn(gold_file[r + 1]) = expected

----------------------------------------------------------------------------
(* Python dicts and floats *)

\* a dict is a function on its keys; the empty dict is <<>>
Get(d, k) == IF k \in DOMAIN d THEN d[k] ELSE 0

\* defaultdict(int): d[k] += n creates the key when it is missing
AddTo(d, k, n) == [x \in DOMAIN d \cup {k} |-> IF x = k THEN Get(d, k) + n ELSE d[x]]

\* defaultdict(int): reading d[k] for every k of S creates the missing keys with 0
Touch(d, S) == [x \in DOMAIN d \cup S |-> Get(d, x)]

\* sum(d.values())
RECURSIVE SumValues(_)
SumValues(d) ==
    IF DOMAIN d = {} THEN 0
    ELSE LET k == CHOOSE x \in DOMAIN d : TRUE
         IN d[k] + SumValues([x \in DOMAIN d \ {k} |-> d[x]])

\* A float is kept as an exact quotient of two polynomials in the constant
\* 1e-13, each the list of its coefficients, lowest power first: rounding is
\* not modelled, and no quotient is taken on faith.
PolyCoef(a, k) == IF k <= Len(a) THEN a[k] ELSE 0

PolyAdd(a, b) ==
    [k \in 1..(IF Len(a) >= Len(b) THEN Len(a) ELSE Len(b)) |-> PolyCoef(a, k) + PolyCoef(b, k)]

RECURSIVE ConvSum(_, _, _, _)
ConvSum(a, b, k, i) ==
    IF i = 0 THEN 0 ELSE PolyCoef(a, i) * PolyCoef(b, k + 1 - i) + ConvSum(a, b, k, i - 1)

PolyMul(a, b) == [k \in 1..(Len(a) + Len(b) - 1) |-> ConvSum(a, b, k, k)]

\* float(n)
Float(n) == [num |-> <<n>>, den |-> <<1>>]

\* 1e-13
Epsilon == [num |-> <<0, 1>>, den |-> <<1>>]

FAdd(x, y) ==
    [num |-> PolyAdd(PolyMul(x.num, y.den), PolyMul(y.num, x.den)),
     den |-> PolyMul(x.den, y.den)]

FMul(x, y) == [num |-> PolyMul(x.num, y.num), den |-> PolyMul(x.den, y.den)]

FDiv(x, y) == [num |-> PolyMul(x.num, y.den), den |-> PolyMul(x.den, y.num)]

\* x == 0.0
FIsZero(x) == \A k \in 1..Len(x.num) : x.num[k] = 0

----------------------------------------------------------------------------
(* The external scorer srl-eval.pl and what the scorer is called with *)

T_A0 == <<"A", "0">>
T_A1 == <<"A", "1">>
T_V == <<"V">>
T_Overall == <<"O", "v", "e", "r", "a", "l", "l">>
Pct == <<"5", "0", ".", "0", "0">>

\* a report line, after line.strip().split(): the list of its fields
CountLine(tag, correct, excess, missed) == <<tag, correct, excess, missed, Pct, Pct, Pct>>

\* what srl-eval.pl may print, as stdout.split("\n"): lines of 7 fields for
\* Overall, for labels and for V, lines of 0, 6 and 8 fields, a label on two
\* lines, a count of two digits, and a label called "overall"
Reports ==
    { <<<<>>>>,
      << <<T_A0, <<"1">>, <<"1">>, <<"1">>, Pct, Pct>>,
         CountLine(T_Overall, <<"2">>, <<"1">>, <<"2">>),
         CountLine(T_A0, <<"1">>, <<"0">>, <<"2">>),
         CountLine(T_V, <<"1">>, <<"1">>, <<"0">>),
         <<>> >>,
      << CountLine(T_Overall, <<"3">>, <<"2">>, <<"0">>),
         CountLine(T_A0, <<"0">>, <<"1">>, <<"0">>),
         CountLine(T_A1, <<"2">>, <<"1">>, <<"0">>),
         CountLine(T_A0, <<"1">>, <<"0">>, <<"0">>),
         <<T_A1, <<"1">>, <<"1">>, <<"1">>, Pct, Pct, Pct, Pct>>,
         <<>> >>,
      << CountLine(T_A1, <<"1", "0">>, <<"0">>, <<"3">>) >>,
      << CountLine(<<"o", "v", "e", "r", "a", "l", "l">>, <<"1">>, <<"0">>, <<"0">>) >> }

\* what srl-eval.pl prints for two files without a sentence: no line for a
\* label, as there is no span; nothing, or a heading and the Overall line
EmptyReports ==
    { <<<<>>>>,
      << <<T_A0, <<"1">>, <<"1">>, <<"1">>, Pct, Pct>>,
         CountLine(T_Overall, <<"0">>, <<"0">>, <<"0">>),
         <<>> >> }

\* one sentence of a batch: verb index, words, predicted and gold CoNLL tags
BatchItem(vi, sent, preds, golds) ==
    [verb_index |-> vi, sentence |-> sent, predicted |-> preds, gold |-> golds]

Batches ==
    LET go == <<"g", "o">>
        it == <<"i", "t">>
        first == BatchItem(<<0>>, <<go>>, <<Star>>, <<Star>>)
        second == BatchItem(<<1>>, <<it, go>>,
                            convert_bio_tags_to_conll_format(<<BTag(<<"A">>), Str_O>>),
                            convert_bio_tags_to_conll_format(<<Str_O, BTag(<<"V">>)>>))
    IN {<<>>, <<first>>, <<first, second>>}

\* what srl-eval.pl may print for the files of a batch
ReportsFor(batch) == IF batch = <<>> THEN EmptyReports ELSE Reports

----------------------------------------------------------------------------
(* bert_recipes/eval.py: SrlEvalScorer *)

\* line 30: SrlEvalScorer(srl_eval_path, ignore_classes=['V'])
ignore_classes == {T_V}

\* int(s) for a string of decimal digits
DigitValue(c) ==
    LET digits == <<"0", "1", "2", "3", "4", "5", "6", "7", "8", "9">>
    IN (CHOOSE k \in 1..10 : digits[k] = c) - 1

RECURSIVE ParseInt(_)
ParseInt(s) ==
    IF Len(s) = 1 THEN DigitValue(s[1])
    ELSE 10 * ParseInt(SubSeq(s, 1, Len(s) - 1)) + DigitValue(s[Len(s)])

\* lines 155-160 without the test on the ignore set
line_is_counted_with_ignored(stripped) ==
    Len(stripped) = 7 /\ ~(stripped[1] = T_Overall)

\* lines 155-160 without the test on the Overall line
line_is_counted_with_overall(stripped) ==
    Len(stripped) = 7 /\ ~(stripped[1] \in ignore_classes)

\* lines 155-160: a line of 7 fields, not tagged Overall, not of an ignored tag
line_is_counted(stripped) ==
    Len(stripped) = 7 /\ ~(stripped[1] = T_Overall \/ stripped[1] \in ignore_classes)

\* lines 154-167: one line of the report
count_line(stripped, counts) ==
    IF line_is_counted(stripped)
    THEN LET tag == stripped[1] IN
         [tp |-> AddTo(counts.tp, tag, ParseInt(stripped[2])),
          fp |-> AddTo(counts.fp, tag, ParseInt(stripped[3])),
          fn |-> AddTo(counts.fn, tag, ParseInt(stripped[4]))]
    ELSE counts

\* line 153: for line in completed_process.stdout.split("\n")
RECURSIVE count_lines(_, _)
count_lines(lines, counts) ==
    IF lines = <<>> THEN counts
    ELSE count_lines(Tail(lines), count_line(Head(lines), counts))

\* lines 133-145: both files are opened empty and each sentence is written
RECURSIVE write_batch(_, _)
write_batch(batch, files) ==
    IF batch = <<>> THEN files
    ELSE LET item == Head(batch) IN
         write_batch(Tail(batch),
             write_conll_formatted_tags_to_file(files.prediction_file, files.gold_file,
                 item.verb_index, item.sentence, item.predicted, item.gold))

\* lines 235-239
compute_metrics(tp, fp, fn) ==
    LET precision == FDiv(Float(tp), FAdd(Float(tp + fp), Epsilon))
        recall == FDiv(Float(tp), FAdd(Float(tp + fn), Epsilon))
        f1_measure == FMul(Float(2), FDiv(FMul(precision, recall),
                                          FAdd(FAdd(precision, recall), Epsilon)))
    IN [precision |-> precision, recall |-> recall, f1 |-> f1_measure]

RECURSIVE SumMetric(_, _, _)
SumMetric(counts, keys, m) ==
    IF keys = {} THEN Float(0)
    ELSE LET k == CHOOSE x \in keys : TRUE
         IN FAdd(compute_metrics(Get(counts.tp, k), Get(counts.fp, k), Get(counts.fn, k))[m],
                 SumMetric(counts, keys \ {k}, m))

\* the overall entry as the mean of the per-label metrics
overall_metrics_macro(counts) ==
    LET keys == DOMAIN counts.tp \cup DOMAIN counts.fp \cup DOMAIN counts.fn
    IN [m \in {"precision", "recall", "f1"} |->
           FDiv(SumMetric(counts, keys, m), Float(Cardinality(keys)))]

\* lines 200-206: the overall entry, from the summed counts
overall_metrics(counts) ==
    compute_metrics(SumValues(counts.tp), SumValues(counts.fp), SumValues(counts.fn))

Key_overall == <<"o", "v", "e", "r", "a", "l", "l">>

\* lines 183-186
all_tags(counts) == DOMAIN counts.tp \cup DOMAIN counts.fp \cup DOMAIN counts.fn

\* lines 187-206: res, when no tag is called "overall"
tag2metrics(counts) ==
    [tag \in all_tags(counts) \cup {Key_overall} |->
        IF tag = Key_overall THEN overall_metrics(counts)
        ELSE compute_metrics(Get(counts.tp, tag), Get(counts.fp, tag), Get(counts.fn, tag))]

\* reset() with one table forgotten
reset_keeping_false_negatives(counts) == [tp |-> <<>>, fp |-> <<>>, fn |-> counts.fn]

\* lines 241-244
reset(counts) == [tp |-> <<>>, fp |-> <<>>, fn |-> <<>>]

Counts == [tp |-> true_positives, fp |-> false_positives, fn |-> false_negatives]

SetCounts(counts) ==
    /\ true_positives' = counts.tp
    /\ false_positives' = counts.fp
    /\ false_negatives' = counts.fn

RECURSIVE SeqToBag(_)
SeqToBag(q) ==
    IF q = <<>> THEN EmptyBag ELSE SetToBag({Head(q)}) (+) SeqToBag(Tail(q))

\* line 127, were the path not looked at
path_exists_unchecked(exists) == TRUE

\* line 127: os.path.exists(self._srl_eval_path)
path_exists(exists) == exists

\* lines 127-128: srl-eval.pl is not there
CallScriptMissing(batch) ==
    /\ ~path_exists(script_exists')
    /\ op' = [name |-> "call", reset |-> FALSE, raised |-> "SystemError", tempdir |-> <<>>,
              batch_size |-> <<Len(batch)>>, invoked |-> FALSE]
    /\ UNCHANGED <<countVars, tempdirs, seen, res>>

\* lines 129-148: the files are written and perl exits with a non-zero status;
\* subprocess.run(check=True) raises and the call ends there
CallScorerFails(batch) ==
    /\ path_exists(script_exists')
    /\ LET tempdir == ncalls
           files == write_batch(batch, [prediction_file |-> <<>>, gold_file |-> <<>>])
       IN /\ tempdirs' = [d \in DOMAIN tempdirs \cup {tempdir} |->
                             IF d = tempdir THEN files ELSE tempdirs[d]]
          /\ op' = [name |-> "call", reset |-> FALSE, raised |-> "CalledProcessError",
                    tempdir |-> <<tempdir>>, batch_size |-> <<Len(batch)>>,
                    invoked |-> TRUE]
    /\ UNCHANGED <<countVars, seen, res>>

\* lines 129-168: the files are written, perl runs the script and prints
\* stdout, the counts are taken from it and the directory is removed
CallScorerSucceeds(batch, stdout) ==
    /\ path_exists(script_exists')
    /\ script_exists'
    /\ LET tempdir == ncalls
           files == write_batch(batch, [prediction_file |-> <<>>, gold_file |-> <<>>])
           written == [d \in DOMAIN tempdirs \cup {tempdir} |->
                          IF d = tempdir THEN files ELSE tempdirs[d]]
       IN /\ SetCounts(count_lines(stdout, Counts))
          /\ tempdirs' = [d \in DOMAIN written \ {tempdir} |-> written[d]]
          /\ op' = [name |-> "call", reset |-> FALSE, raised |-> "", tempdir |-> <<tempdir>>,
                    batch_size |-> <<Len(batch)>>, invoked |-> TRUE]
    /\ seen' = seen (+) SeqToBag(stdout)
    /\ UNCHANGED res

\* lines 99-168: SrlEvalScorer.__call__, with the script there or not when
\* the call looks for it
Call ==
    /\ pc = "scorer"
    /\ ncalls < MaxCalls
    /\ ncalls' = ncalls + 1
    /\ script_exists' \in BOOLEAN
    /\ \/ \E batch \in Batches : CallScriptMissing(batch)
       \/ \E batch \in Batches : CallScorerFails(batch)
       \/ \E batch \in Batches : \E stdout \in ReportsFor(batch) :
             CallScorerSucceeds(batch, stdout)
    /\ UNCHANGED <<pc, conllVars, projectVars, segmentVars, writeVars,
                   converterVars>>

\* lines 188-191: a tag called "overall" is met in the loop over the set
\* all_tags, after any of the other tags has been read in the three tables
GetTag2MetricsRaises ==
    /\ Key_overall \in all_tags(Counts)
    /\ \E before \in SUBSET (all_tags(Counts) \ {Key_overall}) :
          SetCounts([tp |-> Touch(true_positives, before),
                     fp |-> Touch(false_positives, before),
                     fn |-> Touch(false_negatives, before)])
    /\ \E r \in BOOLEAN :
          op' = [name |-> "get_tag2metrics", reset |-> r, raised |-> "ValueError",
                 tempdir |-> <<>>, batch_size |-> <<>>, invoked |-> FALSE]
    /\ UNCHANGED <<res, seen>>

\* lines 183-210
GetTag2MetricsReturns(do_reset) ==
    /\ Key_overall \notin all_tags(Counts)
    /\ res' = tag2metrics(Counts)
    /\ LET read == [tp |-> Touch(true_positives, all_tags(Counts)),
                    fp |-> Touch(false_positives, all_tags(Counts)),
                    fn |-> Touch(false_negatives, all_tags(Counts))]
       IN SetCounts(IF do_reset THEN reset(read) ELSE read)
    /\ seen' = IF do_reset THEN EmptyBag ELSE seen
    /\ op' = [name |-> "get_tag2metrics", reset |-> do_reset, raised |-> "",
              tempdir |-> <<>>, batch_size |-> <<>>, invoked |-> FALSE]

\* lines 170-210: SrlEvalScorer.get_tag2metrics
GetTag2Metrics ==
    /\ pc = "scorer"
    /\ \/ GetTag2MetricsRaises
       \/ \E do_reset \in BOOLEAN : GetTag2MetricsReturns(do_reset)
    /\ UNCHANGED <<pc, script_exists, tempdirs, ncalls,
                   conllVars, projectVars, segmentVars, writeVars, converterVars>>

\* lines 86-97: SrlEvalScorer.__init__
Init ==
    /\ pc = "scorer"
    /\ script_exists \in BOOLEAN
    /\ true_positives = <<>>
    /\ false_positives = <<>>
    /\ false_negatives = <<>>
    /\ tempdirs = <<>>
    /\ seen = EmptyBag
    /\ res = <<>>
    /\ op = NoOp
    /\ ncalls = 0
    /\ IdleConll
    /\ IdleProject
    /\ IdleSegment
    /\ IdleWrite
    /\ IdleConverter

Next == Call \/ GetTag2Metrics

Spec == Init /\ [][Next]_vars

----------------------------------------------------------------------------
(* C6 *)

\* the 7-field lines printed so far whose first field is tag
LinesOf(tag) == {l \in BagToSet(seen) : Len(l) = 7 /\ l[1] = tag}

\* the sum, over the printed lines of L counted as often as they were
\* printed, of the integer in field k (1-based)
RECURSIVE FieldTotal(_, _)
FieldTotal(L, k) ==
    IF L = {} THEN 0
    ELSE LET l == CHOOSE x \in L : TRUE
         IN CopiesIn(l, seen) * ParseInt(l[k]) + FieldTotal(L \ {l}, k)

\* every first field of a printed line, and every key of a count table
TagsInPlay == {l[1] : l \in {x \in BagToSet(seen) : Len(x) >= 1}} \cup all_tags(Counts)

\* C6: with no reset since the counts were empty, each tag's true-positive,
\* false-positive and false-negative counts are the sums of the correct,
\* excess and missed fields of the 7-field lines printed for that tag; lines
\* of another field count, Overall lines and lines of an ignored tag add
\* nothing, and Overall and the ignored tags have no entry in any table.
C6_CountsAreSums ==
    pc = "scorer" =>
        \A tag \in TagsInPlay :
            IF tag = T_Overall \/ tag \in ignore_classes \/ LinesOf(tag) = {}
            THEN tag \notin all_tags(Counts)
            ELSE /\ tag \in DOMAIN true_positives
                 /\ tag \in DOMAIN false_positives
                 /\ tag \in DOMAIN false_negatives
                 /\ true_positives[tag] = FieldTotal(LinesOf(tag), 2)
                 /\ false_positives[tag] = FieldTotal(LinesOf(tag), 3)
                 /\ false_negatives[tag] = FieldTotal(LinesOf(tag), 4)

\* three calls without a reset: A0 was reported on four lines, V on one, and
\* lines of 6 and 8 fields were printed too
C6_Witness ==
    /\ pc = "scorer"
    /\ ncalls = 3
    /\ Cardinality(LinesOf(T_A0)) = 3
    /\ LinesOf(T_V) /= {}
    /\ LinesOf(T_Overall) /= {}
    /\ \E l \in BagToSet(seen) : Len(l) = 8
    /\ T_A0 \in DOMAIN true_positives
    /\ true_positives[T_A0] = 2
    /\ false_positives[T_A0] = 1
    /\ false_negatives[T_A0] = 2
    /\ true_positives[T_A1] = 12

----------------------------------------------------------------------------
(* C7, C8 *)

GetTag2MetricsReturned(o) == o.name = "get_tag2metrics" /\ o.raised = ""

\* the sum of a table's values, key by key
RECURSIVE TotalOver(_, _)
TotalOver(d, keys) ==
    IF keys = {} THEN 0
    ELSE LET k == CHOOSE x \in keys : TRUE IN Get(d, k) + TotalOver(d, keys \ {k})

\* C7: what get_tag2metrics returns has one entry for every key of any of the
\* three tables, computed from that label's own counts, and an entry
\* "overall" computed by the same formula from the sums of the three tables.
C7_MicroAverage ==
    [][GetTag2MetricsReturned(op') =>
          LET keys == all_tags(Counts) IN
          /\ DOMAIN res' = keys \cup {Key_overall}
          /\ \A t \in keys :
                res'[t] = compute_metrics(Get(true_positives, t), Get(false_positives, t),
                                          Get(false_negatives, t))
          /\ res'[Key_overall] = compute_metrics(TotalOver(true_positives, keys),
                                                 TotalOver(false_positives, keys),
                                                 TotalOver(false_negatives, keys))]_vars

\* a result over two labels with different counts, read without a reset
C7_Witness ==
    /\ pc = "scorer"
    /\ GetTag2MetricsReturned(op)
    /\ ~op.reset
    /\ DOMAIN res = {T_A0, T_A1, Key_overall}
    /\ true_positives = (T_A0 :> 1) @@ (T_A1 :> 2)
    /\ false_positives = (T_A0 :> 1) @@ (T_A1 :> 1)
    /\ false_negatives = (T_A0 :> 0) @@ (T_A1 :> 0)
    /\ res[T_A0] /= res[T_A1]
    /\ res[Key_overall] = compute_metrics(3, 2, 0)

AllZero(m) == FIsZero(m.precision) /\ FIsZero(m.recall) /\ FIsZero(m.f1)

\* C8: when get_tag2metrics(reset=True) returns, the three tables are empty
\* and what it returns is computed from the counts held before; a
\* get_tag2metrics() that follows it directly reports "overall", and every
\* label it reports, with precision, recall and f1 all zero.
C8_ResetClears ==
    [][/\ (GetTag2MetricsReturned(op') /\ op'.reset) =>
            /\ DOMAIN true_positives' = {}
            /\ DOMAIN false_positives' = {}
            /\ DOMAIN false_negatives' = {}
            /\ res' = tag2metrics(Counts)
       /\ (GetTag2MetricsReturned(op) /\ op.reset /\ GetTag2MetricsReturned(op')) =>
            /\ Key_overall \in DOMAIN res'
            /\ \A t \in DOMAIN res' : AllZero(res'[t])]_vars

\* a resetting read after counts were gathered: the result is not all zero
C8_Witness ==
    /\ pc = "scorer"
    /\ GetTag2MetricsReturned(op)
    /\ op.reset
    /\ ncalls >= 2
    /\ T_A1 \in DOMAIN res
    /\ ~AllZero(res[T_A1])
    /\ ~AllZero(res[Key_overall])
    /\ all_tags(Counts) = {}

----------------------------------------------------------------------------
(* C9 *)

\* C9: the temporary directory a scorer call created, with its gold and
\* predicted files, is gone when the call has ended, whether the external
\* program succeeded or its invocation raised.
C9_TempFilesRemoved ==
    (pc = "scorer" /\ op.name = "call" /\ op.tempdir /= <<>>) =>
        op.tempdir[1] \notin DOMAIN tempdirs

----------------------------------------------------------------------------
(* C13 *)

\* a step that is a scorer call
IsCall == ncalls' # ncalls

\* C13: a scorer call that does not find the executable raises before any
\* file I/O: no temporary directory or file is created, the external program
\* is not invoked, and the three count tables stay as they were.
C13_MissingScriptFailsFirst ==
    [][(IsCall /\ ~script_exists') =>
          /\ op'.raised = "SystemError"
          /\ op'.tempdir = <<>>
          /\ ~op'.invoked
          /\ UNCHANGED <<tempdirs, true_positives, false_positives, false_negatives>>]_vars

\* the executable is gone at a call made after counts were accumulated
C13_Witness ==
    /\ op.name = "call"
    /\ ~script_exists
    /\ op.raised = "SystemError"
    /\ all_tags(Counts) # {}

----------------------------------------------------------------------------
(* C14 *)

----------------------------------------------------------------------------
(* SpecWords: convert_wordpieces_to_words on any piece sequence *)

\* the pieces a model may predict: the sentinels, words, continuation pieces
PieceSet == {CLS, SEP, <<"a">>, <<"b">>, Continuation \o <<"b">>}

InitWords ==
    /\ pc = "words_input"
    /\ wordpieces \in SeqsUpTo(PieceSet, MaxPieceSeq)
    /\ tokens = <<>>
    /\ tokenize = <<>>
    /\ end_offsets = <<>>
    /\ start_offsets = <<>>
    /\ words = <<>>
    /\ IdleConll
    /\ IdleProject
    /\ IdleWrite
    /\ IdleScorer
    /\ IdleConverter

PiecesToWords ==
    /\ pc = "words_input"
    /\ words' = convert_wordpieces_to_words(wordpieces)
    /\ pc' = "words_done"
    /\ UNCHANGED <<tokens, tokenize, wordpieces, end_offsets, start_offsets,
                   conllVars, projectVars, writeVars, scorerVars, converterVars>>

NextWords == PiecesToWords

SpecWords == InitWords /\ [][NextWords]_vars

----------------------------------------------------------------------------
(* C11 *)

\* the piece at Python index n is a sentinel dropped for where it stands
DroppedAt(n) ==
    \/ wordpieces[n + 1] = CLS /\ n = 0
    \/ wordpieces[n + 1] = SEP /\ n = Len(wordpieces) - 1

\* the Python indices, in order, of the pieces that start a word
WordStarts ==
    LET Starts(n) == ~DroppedAt(n) /\ ~StartsWith(wordpieces[n + 1], Continuation)
    IN SelectSeq([k \in 1..Len(wordpieces) |-> k - 1], Starts)

\* the Python index of the last piece of the run of continuation pieces that
\* follows index n (n itself when none follows)
RunEnd(n) ==
    CHOOSE m \in n..(Len(wordpieces) - 1) :
        /\ \A j \in (n + 1)..m : StartsWith(wordpieces[j + 1], Continuation)
        /\ m = Len(wordpieces) - 1 \/ ~StartsWith(wordpieces[m + 2], Continuation)

\* C11: on any piece sequence a list is returned; [CLS] is dropped only at
\* index 0 and [SEP] only at the last index, elsewhere they start a word like
\* any other piece; the list holds, in order, one word for every piece that is
\* neither dropped nor a continuation, made of that piece and the
\* continuation pieces that directly follow it.
C11_WordsByPosition ==
    pc = "words_done" =>
        /\ Len(words) = Len(WordStarts)
        /\ \A k \in 1..Len(WordStarts) :
              LET n == WordStarts[k] IN
              /\ StartsWith(words[k], wordpieces[n + 1])
              /\ words[k] = Join(SubSeq(wordpieces, n + 1, RunEnd(n) + 1))

\* a [SEP] inside the sentence is kept as a word, the last one is dropped
C11_Witness ==
    /\ pc = "words_done"
    /\ wordpieces = <<CLS, <<"a">>, SEP, SEP>>
    /\ words = <<<<"a">>, SEP>>

----------------------------------------------------------------------------
(* babybertsrl/word_pieces.py: convert_verb_indices_to_wordpiece_indices *)

\* lines 130-132: while j < offset, append the indicator
RECURSIVE verb_while(_, _, _, _)
verb_while(indicator, offset, j, out) ==
    IF ~(j < offset) THEN [j |-> j, new_verb_indices |-> out]
    ELSE verb_while(indicator, offset, j + 1, Append(out, indicator))

\* lines 128-132: for i, offset in enumerate(offsets)
RECURSIVE verb_for(_, _, _, _, _)
verb_for(vis, offs, i, j, out) ==
    IF i >= Len(offs) THEN out
    ELSE LET w == verb_while(vis[i + 1], offs[i + 1], j, out)
         IN verb_for(vis, offs, i + 1, w.j, w.new_verb_indices)

\* lines 126-136, were the indicators of [CLS] and [SEP] left out
convert_verb_indices_without_cls_and_sep(vis, offs) ==
    verb_for(vis, offs, 0, 0, <<>>)

\* lines 126-136
convert_verb_indices_to_wordpiece_indices(vis, offs) ==
    <<0>> \o verb_for(vis, offs, 0, 0, <<>>) \o <<0>>

----------------------------------------------------------------------------
(* babybertsrl/converter.py: ConverterSRL.make_verb_indices *)

\* line 162: int(i == proposition[1]) for i in range(num_w_in_proposition)
one_hot(n, hot) == [k \in 1..n |-> IF k - 1 = hot THEN 1 ELSE 0]

\* lines 164-165, were an all-zero indicator returned
contains_zeros_only_unchecked(vec) == FALSE

\* lines 164-165: all([x == 0 for x in res])
contains_zeros_only(vec) == \A k \in 1..Len(vec) : vec[k] = 0

\* lines 161-167: the indicator, or the ValueError raised in its place
make_verb_indices(proposition) ==
    LET num_w_in_proposition == Len(proposition[1])
        vec == one_hot(num_w_in_proposition, proposition[2])
    IN IF contains_zeros_only(vec)
       THEN [raised |-> "ValueError", res |-> <<>>]
       ELSE [raised |-> "", res |-> vec]

----------------------------------------------------------------------------
(* SpecVerb: the verb indicator of a proposition and its projection *)

\* the words of the propositions
VerbWords == {<<"g", "o">>, <<"i", "t">>}

InitVerb ==
    /\ pc = "verb_input"
    /\ tokens \in SeqsUpTo(VerbWords, MaxWords)
    /\ predicate \in -1..Len(tokens)
    /\ offsets \in {EndOffsetsOf(c) : c \in [1..Len(tokens) -> 0..MaxPieces]}
    /\ verb_indices = <<>>
    /\ new_verb_indices = <<>>
    /\ metadata = <<>>
    /\ utterances = <<>>
    /\ num_masked = 0
    /\ instances = <<>>
    /\ tags = <<>>
    /\ new_tags = <<>>
    /\ tokenize = <<>>
    /\ wordpieces = <<>>
    /\ end_offsets = <<>>
    /\ start_offsets = <<>>
    /\ words = <<>>
    /\ IdleConll
    /\ IdleWrite
    /\ IdleScorer

MakeVerbIndices ==
    /\ pc = "verb_input"
    /\ LET made == make_verb_indices(<<tokens, predicate>>)
       IN IF made.raised # ""
          THEN /\ pc' = "verb_raised"
               /\ UNCHANGED verb_indices
          ELSE /\ pc' = "verb_made"
               /\ verb_indices' = made.res
    /\ UNCHANGED <<predicate, new_verb_indices, metadata, utterances, num_masked, instances,
                   conllVars, projectVars, segmentVars, writeVars, scorerVars>>

\* the projection of the indicator made_verb_indices returned
ProjectMadeVerb ==
    /\ pc = "verb_made"
    /\ new_verb_indices' =
           convert_verb_indices_to_wordpiece_indices(verb_indices, offsets)
    /\ pc' = "verb_projected"
    /\ UNCHANGED <<predicate, verb_indices, metadata, utterances, num_masked, instances,
                   conllVars, projectVars, segmentVars, writeVars, scorerVars>>

\* the projection of any binary indicator over the words
ProjectAnyVerb ==
    /\ pc = "verb_input"
    /\ \E vis \in [1..Len(offsets) -> {0, 1}] :
          /\ verb_indices' = vis
          /\ new_verb_indices' =
                 convert_verb_indices_to_wordpiece_indices(vis, offsets)
    /\ pc' = "verb_projected"
    /\ UNCHANGED <<predicate, metadata, utterances, num_masked, instances,
                   conllVars, projectVars, segmentVars, writeVars, scorerVars>>

NextVerb == MakeVerbIndices \/ ProjectMadeVerb \/ ProjectAnyVerb

SpecVerb == InitVerb /\ [][NextVerb]_vars

----------------------------------------------------------------------------
(* C12 *)

\* the indices, into the returned list, of the pieces of word i (0-based)
PiecesOf(offs, i) == FirstPieceOf(offs, i)..offs[i + 1]

IsOneHotAt(vis, p) == \A k \in 1..Len(vis) : vis[k] = 1 <=> k - 1 = p

\* C12: for a binary indicator over words that each hold at least one piece,
\* the returned list has end_offsets[-1] + 2 entries, its first and last are
\* 0, and every piece of word i carries the indicator of word i; for a one-hot
\* indicator the 1s are exactly the pieces of the predicate word.
C12_ProjectedVerbIndices ==
    (pc = "verb_projected" /\ offsets # <<>> /\ EveryWordHasAPiece(offsets)) =>
        /\ Len(new_verb_indices) = offsets[Len(offsets)] + 2
        /\ new_verb_indices[1] = 0
        /\ new_verb_indices[Len(new_verb_indices)] = 0
        /\ \A i \in 0..(Len(offsets) - 1) : \A n \in PiecesOf(offsets, i) :
              new_verb_indices[n + 1] = verb_indices[i + 1]
        /\ \A p \in 0..(Len(offsets) - 1) :
              IsOneHotAt(verb_indices, p) =>
                  {n \in 0..(Len(new_verb_indices) - 1) : new_verb_indices[n + 1] = 1}
                      = PiecesOf(offsets, p)

\* the second of two words is the predicate and holds two pieces
C12_Witness ==
    /\ pc = "verb_projected"
    /\ verb_indices = <<0, 1>>
    /\ offsets = <<1, 3>>
    /\ new_verb_indices = <<0, 0, 1, 1, 0>>

----------------------------------------------------------------------------
(* C15 *)

PredicateInRange == 0 <= predicate /\ predicate < Len(tokens)

\* C15: with 0 <= predicate < len(words) make_verb_indices returns a vector of
\* length len(words) whose only 1 is at index predicate; with the predicate
\* outside that range, or no words, it raises instead of returning.
C15_OneHotOrRaise ==
    [][(pc = "verb_input" /\ pc' \in {"verb_made", "verb_raised"}) =>
          IF PredicateInRange
          THEN /\ pc' = "verb_made"
               /\ Len(verb_indices') = Len(tokens)
               /\ IsOneHotAt(verb_indices', predicate)
               /\ \A k \in 1..Len(tokens) : verb_indices'[k] \in {0, 1}
          ELSE pc' = "verb_raised"]_vars

\* the middle word of three is the predicate
C15_Witness ==
    /\ pc = "verb_made"
    /\ Len(tokens) = 3
    /\ predicate = 1
    /\ verb_indices = <<0, 1, 0>>

\* a predicate index past the last word raises
C15_WitnessRaised ==
    /\ pc = "verb_raised"
    /\ Len(tokens) = 2
    /\ predicate = 2

----------------------------------------------------------------------------
(* babybertsrl/converter.py: ConverterMLM *)

MASK == <<"[", "M", "A", "S", "K", "]">>

\* line 83: configs.Training.ignored_index
ignored_index == -1

\* the words of the utterances and propositions
CorpusWords == VerbWords

RECURSIVE SetToSeq(_)
SetToSeq(S) ==
    IF S = {} THEN <<>>
    ELSE LET x == CHOOSE y \in S : TRUE IN <<x>> \o SetToSeq(S \ {x})

\* wordpiece_tokenizer.vocab, as the list of its pieces: the id of a piece is
\* its place in the list, counted from 0
VocabList ==
    <<UNK, CLS, SEP, MASK>>
        \o SetToSeq(UNION {Range(t) : t \in UNION {Tokenizations(w) : w \in CorpusWords}}
                        \ {UNK})

\* lines 53, 83: wordpiece_tokenizer.vocab[t]
vocab(t) == (CHOOSE k \in 1..Len(VocabList) : VocabList[k] = t) - 1

\* lines 34-64: the fields of the instance
mlm_text_to_instance(mlm_in, mlm_in_wp, mlm_tags, mlm_tags_wp, starts, indicator_wp) ==
    [tokens |-> [n \in 1..Len(mlm_in_wp) |->
                    [text |-> mlm_in_wp[n], text_id |-> vocab(mlm_in_wp[n])]],
     indicator |-> indicator_wp,
     tags |-> mlm_tags_wp,
     metadata |-> [start_offsets |-> starts, in |-> mlm_in, gold_tags |-> mlm_tags]]

\* lines 80-96: for masked_id in the sample; mlm_in_wp is the one list all
\* passes assign into
RECURSIVE mask_for(_, _, _, _, _, _)
mask_for(mlm_in, mlm_in_wp, starts, masked_ids, k, acc) ==
    IF k > Len(masked_ids) THEN acc
    ELSE LET masked_id == masked_ids[k]
             mlm_tags_wp == [n \in 1..Len(mlm_in_wp) |->
                                IF n - 1 # masked_id THEN ignored_index
                                ELSE vocab(mlm_in_wp[n])]
             masked == [mlm_in_wp EXCEPT ![masked_id + 1] = MASK]
             indicator_wp == [n \in 1..Len(masked) |-> 0]
             instance == mlm_text_to_instance(mlm_in, masked, mlm_in, mlm_tags_wp,
                                              starts, indicator_wp)
         IN mask_for(mlm_in, masked, starts, masked_ids, k + 1, Append(acc, instance))

\* line 80: np.random.choice(choices, size=size, replace=False): any sequence
\* of size different members of choices
Samples(choices, size) ==
    {smp \in [1..size -> choices] : \A x, y \in 1..size : smp[x] = smp[y] => x = y}

\* lines 76-96: the lists of instances one utterance may give
utterance_instances(mlm_in, tok, nmasked) ==
    LET segmented == convert_words_to_wordpieces(mlm_in, tok)
        mlm_in_wp == segmented.wordpieces
        choices == 1..(Len(mlm_in_wp) - 2)
    IN {mask_for(mlm_in, mlm_in_wp, segmented.start_offsets, masked_ids, 1, <<>>) :
           masked_ids \in Samples(choices, Min(Cardinality(choices), nmasked))}

\* lines 74-101: the lists of instances make_instances may return
RECURSIVE make_instances(_, _, _)
make_instances(utts, tok, nmasked) ==
    IF utts = <<>> THEN {<<>>}
    ELSE {first \o rest : first \in utterance_instances(Head(utts), tok, nmasked),
                          rest \in make_instances(Tail(utts), tok, nmasked)}

----------------------------------------------------------------------------
(* SpecMlm: ConverterMLM.make_instances *)

\* one utterance, or two of which the second is a single word, or none
UtteranceLists ==
    LET one == SeqsUpTo(CorpusWords, MaxTokens)
        last == <<CHOOSE w \in CorpusWords : TRUE>>
    IN {<<>>} \cup {<<u>> : u \in one} \cup {<<u, last>> : u \in one}

InitMlm ==
    /\ pc = "mlm_input"
    /\ utterances \in UtteranceLists
    /\ tokenize \in Tokenizers(CorpusWords)
    /\ num_masked \in 1..MaxMasked
    /\ instances = <<>>
    /\ predicate = 0
    /\ verb_indices = <<>>
    /\ new_verb_indices = <<>>
    /\ metadata = <<>>
    /\ tokens = <<>>
    /\ wordpieces = <<>>
    /\ end_offsets = <<>>
    /\ start_offsets = <<>>
    /\ words = <<>>
    /\ IdleConll
    /\ IdleProject
    /\ IdleWrite
    /\ IdleScorer

MakeInstances ==
    /\ pc = "mlm_input"
    /\ instances' \in make_instances(utterances, tokenize, num_masked)
    /\ pc' = "mlm_done"
    /\ UNCHANGED <<predicate, verb_indices, new_verb_indices, metadata, utterances,
                   num_masked, conllVars, projectVars, segmentVars, writeVars, scorerVars>>

NextMlm == MakeInstances

SpecMlm == InitMlm /\ [][NextMlm]_vars

----------------------------------------------------------------------------
(* C16 *)

\* the pieces of the utterance an instance was built from
OriginalPieces(instance) ==
    convert_words_to_wordpieces(instance.metadata.in, tokenize).wordpieces

\* the Python indices of an instance whose tag is not the ignored index
TaggedAt(instance) ==
    {n \in 0..(Len(instance.tags) - 1) : instance.tags[n + 1] # ignored_index}

\* C16: every instance make_instances builds has exactly one [MASK] among its
\* input pieces, at the one position whose tag is not the ignored index, that
\* tag being the vocabulary id of the original piece; every other input piece
\* is the original piece of the utterance, whatever instances were built
\* before it.
C16_OneMaskPerInstance ==
    pc = "mlm_done" =>
        \A k \in 1..Len(instances) :
            LET instance == instances[k]
                original == OriginalPieces(instance)
            IN /\ Cardinality(TaggedAt(instance)) = 1
               /\ Len(instance.tokens) = Len(original)
               /\ \A n \in 0..(Len(original) - 1) :
                     IF n \in TaggedAt(instance)
                     THEN /\ instance.tokens[n + 1].text = MASK
                          /\ instance.tags[n + 1] = vocab(original[n + 1])
                     ELSE instance.tokens[n + 1].text = original[n + 1]

----------------------------------------------------------------------------
(* babybertsrl/converter.py: ConverterSRL._text_to_instance *)

\* line 181: srl_verb_indices.index(1)
index_of_one(vis) == (CHOOSE k \in 1..Len(vis) : vis[k] = 1 /\ \A j \in 1..(k - 1) : vis[j] # 1) - 1

\* lines 175-202: the fields of the instance, or the IndexError of line 182
srl_text_to_instance(srl_in, srl_verb_indices, srl_tags, tok) ==
    LET segmented == convert_words_to_wordpieces(srl_in, tok)
        srl_in_wp == segmented.wordpieces
        srl_tags_wp == convert_bio_tags_to_wordpieces(srl_tags, segmented.end_offsets)
        verb_indices_wp ==
            convert_verb_indices_to_wordpiece_indices(srl_verb_indices, segmented.end_offsets)
        verb_at == index_of_one(srl_verb_indices)
    IN IF verb_at >= Len(srl_in_wp)
       THEN [raised |-> "IndexError"]
       ELSE [raised |-> "",
             tokens |-> srl_in_wp,
             indicator |-> verb_indices_wp,
             tags |-> srl_tags_wp,
             metadata |-> [start_offsets |-> segmented.start_offsets,
                           in |-> srl_in,
                           verb |-> srl_in_wp[verb_at + 1],
                           verb_index |-> verb_at,
                           gold_tags |-> srl_tags,
                           gold_tags_wp |-> srl_tags_wp]]

----------------------------------------------------------------------------
(* SpecSrl: the instance of one proposition *)

\* the tags of a proposition of n words with its predicate at p: B-V there,
\* O or the start of an argument elsewhere
PropositionTags(n, p) ==
    {tgs \in [1..n -> {Str_O, BTag(<<"A">>), BTag(<<"V">>)}] :
        \A k \in 1..n : tgs[k] = BTag(<<"V">>) <=> k - 1 = p}

\* the tokenizers that give every word at least one piece
PieceGivingTokenizers == {tok \in Tokenizers(CorpusWords) : \A w \in CorpusWords : tok[w] # <<>>}

InitSrl ==
    /\ pc = "srl_input"
    /\ tokens \in SeqsUpTo(CorpusWords, MaxWords) \ {<<>>}
    /\ tokenize \in PieceGivingTokenizers
    /\ predicate \in 0..(Len(tokens) - 1)
    /\ verb_indices = make_verb_indices(<<tokens, predicate>>).res
    /\ tags \in PropositionTags(Len(tokens), predicate)
    /\ new_tags = <<>>
    /\ offsets = <<>>
    /\ new_verb_indices = <<>>
    /\ metadata = <<>>
    /\ utterances = <<>>
    /\ num_masked = 0
    /\ instances = <<>>
    /\ wordpieces = <<>>
    /\ end_offsets = <<>>
    /\ start_offsets = <<>>
    /\ words = <<>>
    /\ IdleConll
    /\ IdleWrite
    /\ IdleScorer

TextToInstance ==
    /\ pc = "srl_input"
    /\ LET instance == srl_text_to_instance(tokens, verb_indices, tags, tokenize)
       IN IF instance.raised # ""
          THEN /\ pc' = "srl_raised"
               /\ UNCHANGED <<wordpieces, new_tags, new_verb_indices, metadata>>
          ELSE /\ pc' = "srl_done"
               /\ wordpieces' = instance.tokens
               /\ new_tags' = instance.tags
               /\ new_verb_indices' = instance.indicator
               /\ metadata' = instance.metadata
    /\ UNCHANGED <<tokens, tokenize, end_offsets, start_offsets, words, tags, offsets,
                   predicate, verb_indices, utterances, num_masked, instances,
                   conllVars, writeVars, scorerVars>>

NextSrl == TextToInstance

SpecSrl == InitSrl /\ [][NextSrl]_vars

----------------------------------------------------------------------------
(* C17 *)

\* C17: the verb in the metadata of the instance is the first wordpiece of the
\* predicate word: the piece at index start_offsets[verb_index] of the pieces
\* that start with [CLS].
C17_VerbIsFirstPieceOfPredicate ==
    pc = "srl_done" =>
        metadata.verb = wordpieces[metadata.start_offsets[metadata.verb_index + 1] + 1]

====
